---- MODULE Spec2Model ----
(***************************************************************************)
(* REVOResampler (wepy/resampling/resamplers/revo.py): the greedy          *)
(* variation optimisation of decide(), with the helpers it calls.          *)
(*                                                                         *)
(* Numbers.  Weights, pmin and pmax are counted in one common unit, so an  *)
(* ensemble whose weights add up to 1.0 is a vector of naturals adding up  *)
(* to WSum.  A copy count is a fraction n/d (the loop writes w_i/tempsum   *)
(* into the list while it tries a move).  np.log is the table LnTab, i.e.  *)
(* LScale*ln(k) rounded to an integer, so a novelty is counted in units of *)
(* 1/LScale and a variation in units of 1/LScale^2.  Fractions are kept as *)
(* records [n |-> numerator, d |-> denominator] and compared exactly.      *)
(***************************************************************************)
EXTENDS Integers, Sequences, FiniteSets

(* ------------------------------ bounds --------------------------------- *)
NumWalkers == 4
WSum == 6
MaxD == 3
RMod == 3
MaxCalls == 2

(* ------------------------- program constants --------------------------- *)
dist_exponent == 4
char_dist == 1
LScale == 10
Ln100 == 46
None == -1

Walkers == 0 .. (NumWalkers - 1)

(* ----------------------------- arithmetic ------------------------------ *)
RECURSIVE GCD(_, _)
GCD(a, b) == IF b = 0 THEN a ELSE CHOOSE g \in { GCD(b, r) : r \in { a % b } } : TRUE

RECURSIVE Pow(_, _)
Pow(b, e) == IF e = 0 THEN 1 ELSE b * Pow(b, e - 1)

\* a/b < c/d for a, c >= 0 and b, d > 0, without forming a*d or c*b
RECURSIVE RatLT(_, _, _, _)
RatLT(a, b, c, d) ==
    CHOOSE lt \in
        { IF t.qa # t.qc THEN t.qa < t.qc
          ELSE IF t.rc = 0 THEN FALSE
          ELSE IF t.ra = 0 THEN TRUE
          ELSE RatLT(t.d, t.rc, t.b, t.ra) :
          t \in { [qa |-> a \div b, qc |-> c \div d, ra |-> a % b, rc |-> c % d,
                   b |-> b, d |-> d] } } : TRUE

FracLT(x, y) == RatLT(x.n, x.d, y.n, y.d)
FracLE(x, y) == ~ FracLT(y, x)
Int2Frac(k) == [n |-> k, d |-> 1]

RECURSIVE SumSet(_, _)
SumSet(S, f) ==
    IF S = {} THEN 0
    ELSE CHOOSE sum \in { f[t.x] + SumSet(t.rest, f) :
                          t \in { [x |-> x, rest |-> S \ {x}] :
                                  x \in { CHOOSE y \in S : TRUE } } } : TRUE

SumVec(v) == SumSet(DOMAIN v, v)

\* round(LScale * ln k)
LnTab == << 0, 7, 11, 14, 16, 18, 19, 21, 22, 23, 24, 25, 26, 26, 27, 28 >>

\* LScale * ln(p/q)
LnRat(p, q) == LET g == GCD(p, q) IN LnTab[p \div g] - LnTab[q \div g]

(* ------------------------------- state --------------------------------- *)
VARIABLES
    self,                   \* the resampler's configuration: merge_dist, pmin, pmax, weights, seed
    rng,                    \* state of the module-wide generator `rand` (None: seeded by the system)
    walker_weights,         \* decide's arguments, owned by the caller
    num_walker_copies,
    distance_matrix,
    new_walker_weights,     \* decide's locals
    new_num_walker_copies,
    merge_groups,
    walker_clone_nums,
    variation,
    walker_variations,
    variations,
    productive,
    max_idx,
    merge_pair,
    move,                   \* what the last pass of the loop did
    pc,                     \* "idle", "loop", "done" (decide returned), "error" (decide raised)
    err,                    \* the exception raised
    calls,                  \* number of decide calls begun
    rng0,                   \* generator state when the current call began
    result,                 \* what the current call returned
    prev                    \* what the call before it returned, with its rng0

args == << walker_weights, num_walker_copies, distance_matrix >>
locals == << new_walker_weights, new_num_walker_copies, merge_groups, walker_clone_nums,
             variation, walker_variations, variations, productive, max_idx, merge_pair >>
vars == << self, rng, args, locals, move, pc, err, calls, rng0, result, prev >>

(* ------------------------------ _novelty ------------------------------- *)
\* self.lpmin = np.log(self.pmin/100)
lpmin == LnRat(self.pmin.n, self.pmin.d) - Ln100

\* num_walker_copy is a fraction
_novelty(walker_weight, num_walker_copy) ==
    LET novelty ==
            IF walker_weight > 0 /\ num_walker_copy.n > 0
            THEN IF self.weights
                 THEN LnRat(walker_weight * num_walker_copy.d, num_walker_copy.n) - lpmin
                 ELSE LScale
            ELSE 0
    IN  IF novelty < 0 THEN 0 ELSE novelty

(* ---------------------------- _calcvariation --------------------------- *)
\* f[0] + ... + f[k]
RECURSIVE SumTo(_, _)
SumTo(f, k) == IF k < 0 THEN 0 ELSE f[k] + SumTo(f, k - 1)

\* lines 281-289, for i < j
PartialVariations(copies, dm, walker_novelties) ==
    [i \in Walkers |-> [j \in Walkers |->
        IF i < j /\ copies.n[i] > 0 /\ copies.n[j] > 0
        THEN (Pow(dm[i][j], dist_exponent) \div Pow(char_dist, dist_exponent))
                * walker_novelties[i] * walker_novelties[j]
        ELSE 0]]

\* lines 291-293, summed
SumVariations(copies, partial_variation) ==
    LET vrow == [i \in Walkers |->
                    SumTo([j \in Walkers |-> partial_variation[i][j] * copies.n[i] * copies.n[j]],
                          NumWalkers - 1)]
        virow == [i \in Walkers |->
                    SumTo([j \in Walkers |->
                              (partial_variation[i][j] + partial_variation[j][i]) * copies.n[j]],
                          NumWalkers - 1)]
    IN  [ variation |-> [n |-> SumTo(vrow, NumWalkers - 1), d |-> copies.d * copies.d],
          walker_variations |-> [n |-> virow, d |-> copies.d] ]

\* the copy counts are the fractions copies.n[i] / copies.d
_calcvariation(weights, copies, dm) ==
    CHOOSE cv \in
        { SumVariations(copies, pv) :
            pv \in { PartialVariations(copies, dm, nov) :
                nov \in { [i \in Walkers |->
                            _novelty(weights[i], [n |-> copies.n[i], d |-> copies.d])] } } } :
        TRUE

(* ----------------------- _find_eligible_merge_pairs -------------------- *)
\* the pairs (i, j), i < j, in the order the two nested loops visit them
RECURSIVE PairsFrom(_, _)
PairsFrom(i, j) ==
    IF i >= NumWalkers - 1 THEN << >>
    ELSE IF j > NumWalkers - 1 THEN PairsFrom(i + 1, i + 2)
    ELSE << << i, j >> >> \o PairsFrom(i, j + 1)

\* variant: the distance test of line 394 written with <=
_find_eligible_merge_pairs_le_dist(weights, dm, max_var_idx, copies) ==
    LET eligible(p) ==
            /\ p[1] # max_var_idx /\ p[2] # max_var_idx
            /\ copies.n[p[1]] = copies.d /\ copies.n[p[2]] = copies.d
            /\ weights[p[1]] + weights[p[2]] < self.pmax
            /\ dm[p[1]][p[2]] <= self.merge_dist
    IN  SelectSeq(PairsFrom(0, 1), eligible)

\* variant: the weight test of line 393 written with <=
_find_eligible_merge_pairs_le_pmax(weights, dm, max_var_idx, copies) ==
    LET eligible(p) ==
            /\ p[1] # max_var_idx /\ p[2] # max_var_idx
            /\ copies.n[p[1]] = copies.d /\ copies.n[p[2]] = copies.d
            /\ weights[p[1]] + weights[p[2]] <= self.pmax
            /\ dm[p[1]][p[2]] < self.merge_dist
    IN  SelectSeq(PairsFrom(0, 1), eligible)

\* variant: line 391 left out, the clone candidate may be merged
_find_eligible_merge_pairs_any_idx(weights, dm, max_var_idx, copies) ==
    LET eligible(p) ==
            /\ copies.n[p[1]] = copies.d /\ copies.n[p[2]] = copies.d
            /\ weights[p[1]] + weights[p[2]] < self.pmax
            /\ dm[p[1]][p[2]] < self.merge_dist
    IN  SelectSeq(PairsFrom(0, 1), eligible)

_find_eligible_merge_pairs(weights, dm, max_var_idx, copies) ==
    LET eligible(p) ==
            /\ p[1] # max_var_idx /\ p[2] # max_var_idx
            /\ copies.n[p[1]] = copies.d /\ copies.n[p[2]] = copies.d
            /\ weights[p[1]] + weights[p[2]] < self.pmax
            /\ dm[p[1]][p[2]] < self.merge_dist
    IN  SelectSeq(PairsFrom(0, 1), eligible)

(* -------------------------- _calc_variation_loss ----------------------- *)
\* v_loss of a pair, as a fraction; its denominator is wt_i + wt_j
v_loss(walker_variation, weights, pair) ==
    [n |-> weights[pair[2]] * walker_variation.n[pair[1]]
             + weights[pair[1]] * walker_variation.n[pair[2]],
     d |-> (weights[pair[1]] + weights[pair[2]]) * walker_variation.d]

\* line 341 divides by a zero combined weight for some pair of the list; the numerator is a
\* numpy float (walker_variation is an array), so the quotient 0/0 is nan under numpy's
\* default error state and FloatingPointError under np.seterr(invalid='raise')
LossDivByZero(weights, eligible_pairs) ==
    \E k \in 1 .. Len(eligible_pairs) :
        weights[eligible_pairs[k][1]] + weights[eligible_pairs[k][2]] = 0

\* the loop of lines 331-345 from position k on; min_loss_pair = << >> stands for v_loss_min = inf;
\* a nan v_loss is less than nothing (line 343), so its pair is never taken
RECURSIVE LossLoop(_, _, _, _, _)
LossLoop(walker_variation, weights, eligible_pairs, k, min_loss_pair) ==
    IF k > Len(eligible_pairs) THEN min_loss_pair
    ELSE LET pair == eligible_pairs[k]
             better == /\ weights[pair[1]] + weights[pair[2]] # 0
                       /\ \/ min_loss_pair = << >>
                          \/ FracLT(v_loss(walker_variation, weights, pair),
                                    v_loss(walker_variation, weights, min_loss_pair))
         IN  CHOOSE last \in
                 { LossLoop(walker_variation, weights, eligible_pairs, k + 1, m) :
                   m \in { IF better THEN pair ELSE min_loss_pair } } : TRUE

_calc_variation_loss(walker_variation, weights, eligible_pairs) ==
    LossLoop(walker_variation, weights, eligible_pairs, 1, << >>)

(* ------------------------- _all_to_all_distance ------------------------ *)
\* the metric of the model: images are points of a line
image_distance(a, b) == IF a < b THEN b - a ELSE a - b

_all_to_all_distance(imgs) ==
    [i \in Walkers |-> [j \in Walkers |-> IF i = j THEN 0 ELSE image_distance(imgs[i], imgs[j])]]

(* ------------------------------- Init ---------------------------------- *)
\* the matrices resample() can pass: each comes from one image per walker
DistanceMatrices == { _all_to_all_distance(imgs) : imgs \in [Walkers -> 0 .. MaxD] }

PminChoices == { [n |-> 1, d |-> 4], [n |-> 1, d |-> 1] }
WeightVectors == { w \in [Walkers -> 0 .. WSum] : SumVec(w) = WSum }

Zeros == [i \in Walkers |-> 0]
NoGroups == [i \in Walkers |-> << >>]
NoResult == [ merge_groups |-> NoGroups, walker_clone_nums |-> Zeros,
              variation |-> Int2Frac(0), variations |-> << >>, rng0 |-> None ]

\* the resampler is constructed and resample() has prepared decide's arguments
Init ==
    /\ self \in [ merge_dist : 1 .. (MaxD - 1), pmin : PminChoices, pmax : {WSum - 1},
                  weights : BOOLEAN, seed : {None, 0} ]
    /\ rng = self.seed
    /\ walker_weights \in WeightVectors
    /\ num_walker_copies = [i \in Walkers |-> 1]
    /\ distance_matrix \in DistanceMatrices
    /\ new_walker_weights = Zeros
    /\ new_num_walker_copies = [n |-> Zeros, d |-> 1]
    /\ merge_groups = NoGroups
    /\ walker_clone_nums = Zeros
    /\ variation = Int2Frac(0)
    /\ walker_variations = [n |-> Zeros, d |-> 1]
    /\ variations = << >>
    /\ productive = FALSE
    /\ max_idx = None
    /\ merge_pair = << >>
    /\ move = "none"
    /\ pc = "idle"
    /\ err = "none"
    /\ calls = 0
    /\ rng0 = None
    /\ result = NoResult
    /\ prev = NoResult

(* ------------------------------ __init__ ------------------------------- *)
\* a resampler is constructed again with the same arguments: lines 192-195 seed the generator
REVOResampler_init ==
    /\ pc = "done"
    /\ calls < MaxCalls
    /\ rng' = IF self.seed # None THEN self.seed ELSE rng
    /\ pc' = "idle"
    /\ prev' = result
    /\ UNCHANGED << self, args, locals, move, err, calls, rng0, result >>

(* ------------------------- decide, lines 430-450 ----------------------- *)
decide_enter ==
    /\ pc = "idle" \/ (pc = "done" /\ calls < MaxCalls)
    /\ LET copies == [n |-> num_walker_copies, d |-> 1]
           cv == _calcvariation(walker_weights, copies, distance_matrix)
       IN  /\ new_walker_weights' = walker_weights
           /\ new_num_walker_copies' = copies
           /\ variation' = cv.variation
           /\ walker_variations' = cv.walker_variations
           /\ variations' = << cv.variation >>
    /\ merge_groups' = NoGroups
    /\ walker_clone_nums' = Zeros
    /\ productive' = TRUE
    /\ max_idx' = None
    /\ merge_pair' = << >>
    /\ move' = "none"
    /\ pc' = "loop"
    /\ calls' = calls + 1
    /\ rng0' = rng
    /\ prev' = IF pc = "done" THEN result ELSE prev
    /\ result' = NoResult
    /\ UNCHANGED << self, rng, args, err >>

(* --------------------- the list of copy counts ------------------------- *)
RECURSIVE GCDSeq(_, _, _)
GCDSeq(v, i, g) == IF i > NumWalkers - 1 THEN g ELSE GCDSeq(v, i + 1, GCD(g, v[i]))

\* one representation per list of fractions: the least common denominator
Norm(copies) ==
    CHOOSE r \in UNION { { [n |-> [i \in Walkers |-> c.n[i] \div g], d |-> c.d \div g] :
                             g \in { GCDSeq(c.n, 0, c.d) } } :
                         c \in { copies } } : TRUE

\* copies[i] = f
SetCopy(copies, i, f) ==
    CHOOSE r \in { Norm([n |-> [k \in Walkers |-> IF k = i THEN f.n * c.d ELSE c.n[k] * f.d],
                         d |-> c.d * f.d]) :
                     c \in { copies } } : TRUE

\* copies[i] += k
AddCopy(copies, i, k) ==
    CHOOSE r \in { [n |-> [c.n EXCEPT ![i] = @ + k * c.d], d |-> c.d] : c \in { copies } } : TRUE

(* ---------------------- decide, one pass of the loop ------------------- *)
\* variant: the weight test of line 469 left out
max_tups_no_pmin(weights, copies, groups) ==
    { i \in Walkers : copies.n[i] >= copies.d /\ Len(groups[i]) = 0 }

\* lines 463-471: the walkers that may be cloned
max_tups(weights, copies, groups) ==
    { i \in Walkers :
        /\ copies.n[i] >= copies.d
        /\ weights[i] * copies.d * self.pmin.d > self.pmin.n * (copies.n[i] + copies.d)
        /\ Len(groups[i]) = 0 }

\* variant: ties between equal values go to the smaller index
MaxOfTups_first_index(tups, walker_variation) ==
    IF tups = {} THEN None
    ELSE CHOOSE i \in tups :
            \A j \in tups :
                \/ walker_variation.n[j] < walker_variation.n[i]
                \/ (walker_variation.n[j] = walker_variation.n[i] /\ j >= i)

\* lines 474-475: max() of the tuples (value, i)
MaxOfTups(tups, walker_variation) ==
    IF tups = {} THEN None
    ELSE CHOOSE i \in tups :
            \A j \in tups :
                \/ walker_variation.n[j] < walker_variation.n[i]
                \/ (walker_variation.n[j] = walker_variation.n[i] /\ j <= i)

\* lines 496-498: the pair's copy counts become its shares of the combined weight
SplitPair(copies, weights, pair) ==
    LET tempsum == weights[pair[1]] + weights[pair[2]]
    IN  SetCopy(SetCopy(copies, pair[1], [n |-> weights[pair[1]], d |-> tempsum]),
                pair[2], [n |-> weights[pair[2]], d |-> tempsum])

\* lines 496-499
Tentative(copies, weights, pair, midx) == AddCopy(SplitPair(copies, weights, pair), midx, 1)

\* random.random() of a seeded generator: the state advances, the output is state / RMod
RandomNext(state) == (state + 1) % RMod

\* variant: the generator is never seeded
Draws_unseeded == 0 .. (RMod - 1)

\* the outputs the next call of random.random() can give, as numerators over RMod
Draws == IF rng = None THEN 0 .. (RMod - 1) ELSE { RandomNext(rng) }

\* lines 516-526: r = rand.uniform(0.0, w[closewalk] + w[min_idx]) with random() = u / RMod
KeepIdx(weights, pair, u) ==
    IF u * (weights[pair[2]] + weights[pair[1]]) < weights[pair[2]] * RMod
    THEN pair[2] ELSE pair[1]

\* variant: line 530 left out
MergeWeights_no_zero(weights, keep_idx, squash_idx) ==
    [weights EXCEPT ![keep_idx] = @ + weights[squash_idx]]

\* lines 529-530
MergeWeights(weights, keep_idx, squash_idx) ==
    [weights EXCEPT ![keep_idx] = @ + weights[squash_idx], ![squash_idx] = 0]

\* variant: line 533 left out
MergeCopies_no_squash(copies, keep_idx, squash_idx) ==
    SetCopy(copies, keep_idx, Int2Frac(1))

\* lines 533-534
MergeCopies(copies, keep_idx, squash_idx) ==
    SetCopy(SetCopy(copies, squash_idx, Int2Frac(0)), keep_idx, Int2Frac(1))

\* variant: line 544 left out
MergeGroups_no_reset(groups, keep_idx, squash_idx) ==
    [groups EXCEPT ![keep_idx] = (@ \o << squash_idx >>) \o groups[squash_idx]]

\* lines 537-544
MergeGroups(groups, keep_idx, squash_idx) ==
    [groups EXCEPT ![keep_idx] = (@ \o << squash_idx >>) \o groups[squash_idx],
                   ![squash_idx] = << >>]

\* variant: line 562 left out
Rollback_no_undo(copies, pair, midx) ==
    SetCopy(SetCopy(copies, pair[1], Int2Frac(1)), pair[2], Int2Frac(1))

\* lines 560-562
Rollback(copies, pair, midx) ==
    AddCopy(SetCopy(SetCopy(copies, pair[1], Int2Frac(1)), pair[2], Int2Frac(1)), midx, -1)

InLoop == pc = "loop" /\ productive

\* lines 484-499, given the clone candidate and the eligible pairs
PassWith(midx, pot) ==
    CHOOSE p \in
        { [ max_idx |-> midx, pot_merge_pairs |-> pot,
            div0 |-> LossDivByZero(new_walker_weights, pot),
            merge_pair |-> pair,
            tried |-> pair # << >> /\ midx # None,
            tentative |-> IF pair # << >> /\ midx # None
                          THEN Tentative(new_num_walker_copies, new_walker_weights, pair, midx)
                          ELSE new_num_walker_copies ] :
          pair \in { _calc_variation_loss(walker_variations, new_walker_weights, pot) } } :
        TRUE

\* lines 452-499 of one pass, as far as the pass gets
ThePass ==
    CHOOSE p \in
        UNION { { PassWith(midx, pot) :
                    pot \in { _find_eligible_merge_pairs(new_walker_weights, distance_matrix,
                                                         midx, new_num_walker_copies) } } :
                midx \in { MaxOfTups(max_tups(new_walker_weights, new_num_walker_copies,
                                              merge_groups), walker_variations) } } :
        TRUE

\* line 502
PassNew(p) == _calcvariation(new_walker_weights, p.tentative, distance_matrix)

\* _calc_variation_loss divides by a zero combined weight (line 341) while numpy's error
\* state is 'raise'; under the default state the pass goes on with the pair left out
pass_zero_division ==
    /\ InLoop
    /\ \E p \in {ThePass} :
           /\ p.div0
           /\ max_idx' = p.max_idx
    /\ productive' = FALSE
    /\ move' = "raise"
    /\ pc' = "error"
    /\ err' = "FloatingPointError"
    /\ UNCHANGED << self, rng, args, new_walker_weights, new_num_walker_copies, merge_groups,
                    walker_clone_nums, variation, walker_variations, variations, merge_pair,
                    calls, rng0, result, prev >>

\* variant: the clone is counted although no pair was found
pass_no_pair_counts_clone ==
    /\ InLoop
    /\ \E p \in {ThePass} :
           /\ p.merge_pair = << >>
           /\ max_idx' = p.max_idx
           /\ walker_clone_nums' = IF p.max_idx = None THEN walker_clone_nums
                                   ELSE [walker_clone_nums EXCEPT ![p.max_idx] = @ + 1]
    /\ merge_pair' = << >>
    /\ productive' = FALSE
    /\ move' = "nopair"
    /\ UNCHANGED << self, rng, args, new_walker_weights, new_num_walker_copies, merge_groups,
                    variation, walker_variations, variations,
                    pc, err, calls, rng0, result, prev >>

\* line 490: no merge pair, nothing is tried
pass_no_pair ==
    /\ InLoop
    /\ \E p \in {ThePass} :
           /\ p.merge_pair = << >>
           /\ max_idx' = p.max_idx
    /\ merge_pair' = << >>
    /\ productive' = FALSE
    /\ move' = "nopair"
    /\ UNCHANGED << self, rng, args, new_walker_weights, new_num_walker_copies, merge_groups,
                    walker_clone_nums, variation, walker_variations, variations,
                    pc, err, calls, rng0, result, prev >>

\* line 499 with max_idx = None: a list is indexed by None
pass_type_error ==
    /\ InLoop
    /\ \E p \in {ThePass} :
           /\ p.merge_pair # << >>
           /\ p.max_idx = None
           /\ merge_pair' = p.merge_pair
           /\ new_num_walker_copies' =
                 SplitPair(new_num_walker_copies, new_walker_weights, p.merge_pair)
    /\ max_idx' = None
    /\ productive' = FALSE
    /\ move' = "raise"
    /\ pc' = "error"
    /\ err' = "TypeError"
    /\ UNCHANGED << self, rng, args, new_walker_weights, merge_groups,
                    walker_clone_nums, variation, walker_variations, variations,
                    calls, rng0, result, prev >>

\* variant: lines 437-438 without .copy(), the merge writes the caller's lists
pass_accept_in_place ==
    /\ InLoop
    /\ \E p \in {ThePass} : p.tried /\ \E new \in {PassNew(p)} :
           /\ FracLT(variation, new.variation)
           /\ \E u \in Draws :
              \E keep_idx \in { KeepIdx(new_walker_weights, p.merge_pair, u) } :
              \E squash_idx \in { p.merge_pair[1], p.merge_pair[2] } \ { keep_idx } :
              \E weights2 \in { MergeWeights(new_walker_weights, keep_idx, squash_idx) } :
              \E copies2 \in { MergeCopies(p.tentative, keep_idx, squash_idx) } :
              \E after \in { _calcvariation(weights2, copies2, distance_matrix) } :
                    /\ rng' = IF rng = None THEN None ELSE u
                    /\ new_walker_weights' = weights2
                    /\ walker_weights' = weights2
                    /\ num_walker_copies' = copies2.n
                    /\ new_num_walker_copies' = copies2
                    /\ merge_groups' = MergeGroups(merge_groups, keep_idx, squash_idx)
                    /\ walker_clone_nums' = [walker_clone_nums EXCEPT ![p.max_idx] = @ + 1]
                    /\ variations' =
                          (variations \o << new.variation >>) \o << after.variation >>
                    /\ walker_variations' = after.walker_variations
           /\ variation' = new.variation
           /\ max_idx' = p.max_idx
           /\ merge_pair' = p.merge_pair
    /\ productive' = TRUE
    /\ move' = "accept"
    /\ UNCHANGED << self, distance_matrix, pc, err, calls, rng0, result, prev >>

\* lines 504-556: the move raises the variation and is made
pass_accept ==
    /\ InLoop
    /\ \E p \in {ThePass} : p.tried /\ \E new \in {PassNew(p)} :
           /\ FracLT(variation, new.variation)
           /\ \E u \in Draws :
              \E keep_idx \in { KeepIdx(new_walker_weights, p.merge_pair, u) } :
              \E squash_idx \in { p.merge_pair[1], p.merge_pair[2] } \ { keep_idx } :
              \E weights2 \in { MergeWeights(new_walker_weights, keep_idx, squash_idx) } :
              \E copies2 \in { MergeCopies(p.tentative, keep_idx, squash_idx) } :
              \E after \in { _calcvariation(weights2, copies2, distance_matrix) } :
                    /\ rng' = IF rng = None THEN None ELSE u
                    /\ new_walker_weights' = weights2
                    /\ new_num_walker_copies' = copies2
                    /\ merge_groups' = MergeGroups(merge_groups, keep_idx, squash_idx)
                    /\ walker_clone_nums' = [walker_clone_nums EXCEPT ![p.max_idx] = @ + 1]
                    /\ variations' =
                          (variations \o << new.variation >>) \o << after.variation >>
                    /\ walker_variations' = after.walker_variations
           /\ variation' = new.variation
           /\ max_idx' = p.max_idx
           /\ merge_pair' = p.merge_pair
    /\ productive' = TRUE
    /\ move' = "accept"
    /\ UNCHANGED << self, args, pc, err, calls, rng0, result, prev >>

\* variant: productive is not cleared by line 452 before a rejected pass
pass_reject_goes_on ==
    /\ InLoop
    /\ \E p \in {ThePass} : p.tried /\ \E new \in {PassNew(p)} :
           /\ ~ FracLT(variation, new.variation)
           /\ new_num_walker_copies' = Rollback(p.tentative, p.merge_pair, p.max_idx)
           /\ walker_variations' = new.walker_variations
           /\ max_idx' = p.max_idx
           /\ merge_pair' = p.merge_pair
    /\ productive' = TRUE
    /\ move' = "reject"
    /\ UNCHANGED << self, rng, args, new_walker_weights, merge_groups, walker_clone_nums,
                    variation, variations, pc, err, calls, rng0, result, prev >>

\* lines 558-562: the move does not raise the variation and is undone
pass_reject ==
    /\ InLoop
    /\ \E p \in {ThePass} : p.tried /\ \E new \in {PassNew(p)} :
           /\ ~ FracLT(variation, new.variation)
           /\ new_num_walker_copies' = Rollback(p.tentative, p.merge_pair, p.max_idx)
           /\ walker_variations' = new.walker_variations
           /\ max_idx' = p.max_idx
           /\ merge_pair' = p.merge_pair
    /\ productive' = FALSE
    /\ move' = "reject"
    /\ UNCHANGED << self, rng, args, new_walker_weights, merge_groups, walker_clone_nums,
                    variation, variations, pc, err, calls, rng0, result, prev >>

\* variant: the accepted variation of line 510 is returned
decide_return_accepted ==
    /\ pc = "loop"
    /\ ~ productive
    /\ result' = [ merge_groups |-> merge_groups, walker_clone_nums |-> walker_clone_nums,
                   variation |-> variation, variations |-> variations,
                   rng0 |-> rng0 ]
    /\ pc' = "done"
    /\ UNCHANGED << self, rng, args, locals, move, err, calls, rng0, prev >>

\* lines 564-576: the loop has ended, the decisions are returned with variations[-1]
decide_return ==
    /\ pc = "loop"
    /\ ~ productive
    /\ result' = [ merge_groups |-> merge_groups, walker_clone_nums |-> walker_clone_nums,
                   variation |-> variations[Len(variations)], variations |-> variations,
                   rng0 |-> rng0 ]
    /\ pc' = "done"
    /\ UNCHANGED << self, rng, args, locals, move, err, calls, rng0, prev >>

Next ==
    \/ decide_enter
    \/ pass_zero_division
    \/ pass_no_pair
    \/ pass_type_error
    \/ pass_accept
    \/ pass_reject
    \/ decide_return
    \/ REVOResampler_init

Spec == Init /\ [][Next]_vars

\* decide runs in one thread: once entered, the loop of lines 451-562 and the return go on
DecideStep ==
    \/ pass_zero_division
    \/ pass_no_pair
    \/ pass_type_error
    \/ pass_accept
    \/ pass_reject
    \/ decide_return

\* the runs checked for termination: a seeded generator, weights at its default (line 120)
\* and the largest merge_dist
FairInit == Init /\ self.seed = 0 /\ self.merge_dist = MaxD - 1 /\ self.weights

FairSpec == FairInit /\ [][Next]_vars /\ WF_vars(DecideStep)

(* ======================================================================= *)
(* The claims                                                              *)
(* ======================================================================= *)
Returned == pc = "done"
AtIteration == pc = "loop"
Squashed == { i \in Walkers : new_num_walker_copies.n[i] = 0 }
Accepted == SumTo(walker_clone_nums, NumWalkers - 1)

\* C1: at the start of every pass of the loop and when decide returns, the working copy
\* counts are non-negative integers that add up to the number of walkers, and the clone
\* counts add up to the number of squashed walkers.
C1_SizeInvariant ==
    (AtIteration \/ Returned) =>
        /\ new_num_walker_copies.d = 1
        /\ \A i \in Walkers : new_num_walker_copies.n[i] \in Nat
        /\ SumTo(new_num_walker_copies.n, NumWalkers - 1) = NumWalkers
        /\ Accepted = Cardinality(Squashed)

\* two moves were made and decide returned
C1_Witness == Returned /\ Accepted >= 2 /\ Cardinality(Squashed) = 2

\* C2: the working weights always add up to the sum of the input weights, and a pass that
\* makes a move adds the loser's whole weight to the survivor, sets the loser's weight to 0
\* and leaves every other weight as it was.
C2_WeightConservation ==
    /\ [](pc # "idle" => SumTo(new_walker_weights, NumWalkers - 1)
                            = SumTo(walker_weights, NumWalkers - 1))
    /\ [][ (pc = "loop" /\ new_walker_weights' # new_walker_weights) =>
             \E keep_idx, squash_idx \in Walkers :
                /\ keep_idx # squash_idx
                /\ { keep_idx, squash_idx } = { merge_pair'[1], merge_pair'[2] }
                /\ new_walker_weights'[keep_idx]
                      = new_walker_weights[keep_idx] + new_walker_weights[squash_idx]
                /\ new_walker_weights'[squash_idx] = 0
                /\ \A i \in Walkers \ { keep_idx, squash_idx } :
                      new_walker_weights'[i] = new_walker_weights[i] ]_vars

\* a move was accepted and one rejected, a positive weight was moved, and decide returned
C2_Witness ==
    /\ Returned /\ move = "reject" /\ Accepted >= 1
    /\ new_walker_weights # walker_weights

\* C3 as claimed: the recorded variations never decrease and the returned one is at least
\* the initial one.
C3_TraceNonDecreasing ==
    (AtIteration \/ Returned) =>
        /\ \A k \in 1 .. (Len(variations) - 1) : FracLE(variations[k], variations[k + 1])
        /\ Returned => FracLE(variations[1], result.variation)

\* the first pass of the loop, computed from decide's arguments
FirstCopies == [n |-> num_walker_copies, d |-> 1]
FirstPass ==
    CHOOSE f \in
        UNION { { [ variation |-> cv.variation, max_idx |-> midx,
                    eligible |-> _find_eligible_merge_pairs(walker_weights, distance_matrix,
                                                            midx, FirstCopies) ] :
                    midx \in { MaxOfTups(max_tups(walker_weights, FirstCopies, NoGroups),
                                         cv.walker_variations) } } :
                cv \in { _calcvariation(walker_weights, FirstCopies, distance_matrix) } } :
        TRUE

Identity ==
    /\ walker_clone_nums = Zeros
    /\ merge_groups = NoGroups
    /\ new_num_walker_copies = FirstCopies

\* C4 as claimed: a pass that finds no clone candidate does not make decide raise, and when
\* the first pass finds none decide returns the identity resampling.
C4_NoCandidateNoError ==
    (max_idx = None /\ move # "none") =>
        /\ pc # "error"
        /\ (Returned /\ FirstPass.max_idx = None) =>
               (Identity /\ result.merge_groups = NoGroups /\ result.walker_clone_nums = Zeros)

\* C5: when the first pass finds no eligible merge pair, no move is made: decide returns
\* with every clone count 0, every merge group empty, every copy count 1 and the initial
\* variation.
C5_NoEligiblePairNoMove ==
    move # "none" =>
        \E f \in {FirstPass} :
            f.eligible = << >> =>
                /\ pc # "error"
                /\ move = "nopair"
                /\ Identity
                /\ variations = << f.variation >>
                /\ Returned => /\ result.walker_clone_nums = Zeros
                               /\ result.merge_groups = NoGroups
                               /\ result.variation = f.variation

\* decide returned after a first pass that had a clone candidate and no eligible pair: every
\* two other walkers are merge_dist or more apart
C5_Witness ==
    /\ Returned
    /\ \E f \in {FirstPass} :
          /\ f.eligible = << >>
          /\ f.max_idx # None
          /\ \A i, j \in Walkers \ {f.max_idx} :
                i # j => distance_matrix[i][j] >= self.merge_dist

SameDecisions(r1, r2) ==
    /\ r1.merge_groups = r2.merge_groups
    /\ r1.walker_clone_nums = r2.walker_clone_nums
    /\ r1.variations = r2.variations

\* C6 as claimed: with a fixed seed, a repeated decide call on the same input returns the
\* decision records and the variation trace of the call before it.
C6_RepeatedCallsIdentical ==
    (Returned /\ calls >= 2 /\ self.seed # None) => SameDecisions(result, prev)

\* C6 as amended: with a fixed seed, two decide calls on the same input that begin in the
\* same state of the generator return the same decision records and variation trace.
C6_SameGeneratorSameDecisions ==
    (Returned /\ calls >= 2 /\ self.seed # None /\ result.rng0 = prev.rng0) =>
        SameDecisions(result, prev)

\* the resampler was constructed again with its seed, and both calls drew a survivor
C6_Witness ==
    /\ Returned /\ calls >= 2 /\ self.seed # None
    /\ result.rng0 = prev.rng0
    /\ Accepted >= 1

SeqToSet(q) == { q[k] : k \in 1 .. Len(q) }

\* C7: for every excluded index, None included, _find_eligible_merge_pairs returns each
\* pair (i, j), i < j, once, and returns it exactly when neither index is the excluded
\* one, both copy counts are 1, the weights add up to less than pmax and the distance is
\* less than merge_dist.
C7_EligiblePairsExact ==
    \A excluded \in Walkers \cup {None} :
        LET pairs == _find_eligible_merge_pairs(new_walker_weights, distance_matrix, excluded,
                                                new_num_walker_copies)
        IN  /\ SeqToSet(pairs) =
                 { p \in Walkers \X Walkers :
                     /\ p[1] < p[2]
                     /\ p[1] # excluded /\ p[2] # excluded
                     /\ new_num_walker_copies.n[p[1]] = new_num_walker_copies.d
                     /\ new_num_walker_copies.n[p[2]] = new_num_walker_copies.d
                     /\ new_walker_weights[p[1]] + new_walker_weights[p[2]] < self.pmax
                     /\ distance_matrix[p[1]][p[2]] < self.merge_dist }
            /\ Cardinality(SeqToSet(pairs)) = Len(pairs)
            /\ \A k \in 1 .. Len(pairs) :
                  /\ new_walker_weights[pairs[k][1]] + new_walker_weights[pairs[k][2]] # self.pmax
                  /\ distance_matrix[pairs[k][1]][pairs[k][2]] # self.merge_dist

\* a pass ran with no clone candidate and found an eligible pair, while one pair of single
\* walkers weighs exactly pmax and another is exactly merge_dist apart
C7_Witness ==
    /\ move = "raise" /\ max_idx = None /\ merge_pair # << >>
    /\ \E i, j \in Walkers :
          /\ i < j /\ walker_weights[i] + walker_weights[j] = self.pmax
          /\ distance_matrix[i][j] < self.merge_dist
    /\ \E i, j \in Walkers :
          /\ i < j /\ walker_weights[i] + walker_weights[j] < self.pmax
          /\ distance_matrix[i][j] = self.merge_dist

\* C8: a walker with k > 0 clones has weight / (k + 1) > pmin, in every state of decide.
C8_ClonesAbovePmin ==
    \A i \in Walkers :
        walker_clone_nums[i] > 0 =>
            new_walker_weights[i] * self.pmin.d > self.pmin.n * (walker_clone_nums[i] + 1)

\* decide returned with a walker cloned as often as pmin allows: one more clone would
\* bring its copies to pmin or below
C8_Witness ==
    /\ Returned
    /\ \E i \in Walkers :
          /\ walker_clone_nums[i] > 0
          /\ new_walker_weights[i] * self.pmin.d <= self.pmin.n * (walker_clone_nums[i] + 2)

\* C9: the survivor of a merge has a weight less than pmax.
C9_SurvivorBelowPmax ==
    \A i \in Walkers : Len(merge_groups[i]) > 0 => new_walker_weights[i] < self.pmax

\* a survivor of two merges, one unit below pmax
C9_Witness ==
    /\ Returned
    /\ \E i \in Walkers : Len(merge_groups[i]) >= 2 /\ new_walker_weights[i] = self.pmax - 1

\* C10 as claimed: when decide returns, every member of a merge group is less than
\* merge_dist away from the group's survivor.
C10_GroupWithinMergeDist ==
    Returned =>
        \A s \in Walkers : \A k \in 1 .. Len(merge_groups[s]) :
            distance_matrix[merge_groups[s][k]][s] < self.merge_dist

AllDistancesZero == \A i, j \in Walkers : distance_matrix[i][j] = 0

\* C11 as claimed: when every pairwise distance is 0, decide accepts no move, does not
\* raise, and returns with every clone count 0 and every merge group empty.
C11_IdenticalWalkersIdentity ==
    (AllDistancesZero /\ pc # "idle") =>
        /\ move # "accept"
        /\ pc # "error"
        /\ walker_clone_nums = Zeros /\ merge_groups = NoGroups
        /\ Returned => (result.walker_clone_nums = Zeros /\ result.merge_groups = NoGroups)

\* C12: a pass that rejects its proposal leaves the working copy counts as they were before
\* the proposal, leaves the working weights, the merge groups, the clone counts and the
\* recorded variations unchanged, and is the last pass of the call: the next step returns.
C12_RollbackOnRejection ==
    /\ [][ (InLoop /\ move' = "reject") =>
             /\ new_num_walker_copies' = new_num_walker_copies
             /\ new_walker_weights' = new_walker_weights
             /\ merge_groups' = merge_groups
             /\ walker_clone_nums' = walker_clone_nums
             /\ variations' = variations
             /\ ~ productive' ]_vars
    /\ [][ (pc = "loop" /\ move = "reject") => (pc' = "done" /\ move' = "reject") ]_vars

\* a proposal was rejected whose clone candidate had been cloned before: its copy count
\* went from 2 to 3 and back
C12_Witness ==
    /\ pc = "loop" /\ move = "reject"
    /\ max_idx # None /\ walker_clone_nums[max_idx] >= 1
    /\ new_num_walker_copies.n[max_idx] = 2 /\ new_num_walker_copies.d = 1

\* C13 as claimed: in no pass of the loop does the list of eligible pairs handed to
\* _calc_variation_loss hold a pair whose combined weight is 0.
C13_NoZeroWeightPairEvaluated ==
    InLoop => \E p \in {ThePass} : ~ LossDivByZero(new_walker_weights, p.pot_merge_pairs)

GroupMembers == UNION { SeqToSet(merge_groups[s]) : s \in Walkers }
GroupEntries == SumTo([s \in Walkers |-> Len(merge_groups[s])], NumWalkers - 1)

\* C14: at the start of every pass and when decide returns, no walker is listed twice in
\* the merge groups, no survivor is in its own group, and the walkers listed are exactly
\* those whose working copy count is 0; a pass that makes a move gives the survivor its
\* own group, then the loser, then the loser's group, empties the loser's group and leaves
\* the other groups alone.
C14_MergeGroupsDisjoint ==
    /\ []((AtIteration \/ Returned) =>
            /\ GroupEntries = Cardinality(GroupMembers)
            /\ \A s \in Walkers : s \notin SeqToSet(merge_groups[s])
            /\ GroupMembers = Squashed)
    /\ [][ (InLoop /\ merge_groups' # merge_groups) =>
             \E keep_idx, squash_idx \in Walkers :
                /\ keep_idx # squash_idx
                /\ { keep_idx, squash_idx } = { merge_pair'[1], merge_pair'[2] }
                /\ merge_groups'[keep_idx]
                      = (merge_groups[keep_idx] \o << squash_idx >>) \o merge_groups[squash_idx]
                /\ merge_groups'[squash_idx] = << >>
                /\ \A i \in Walkers \ { keep_idx, squash_idx } :
                      merge_groups'[i] = merge_groups[i] ]_vars

\* decide returned a group with a member that was inherited: it is merge_dist or more away
\* from the survivor, so it was never paired with it
C14_Witness ==
    /\ Returned
    /\ \E s \in Walkers :
          /\ Len(merge_groups[s]) >= 2
          /\ distance_matrix[merge_groups[s][2]][s] >= self.merge_dist

\* the walkers a pass may clone, read off the state the pass starts in
Clonable ==
    { i \in Walkers :
        /\ FracLE(Int2Frac(1), [n |-> new_num_walker_copies.n[i], d |-> new_num_walker_copies.d])
        /\ FracLT(self.pmin, [n |-> new_walker_weights[i] * new_num_walker_copies.d,
                              d |-> new_num_walker_copies.n[i] + new_num_walker_copies.d])
        /\ merge_groups[i] = << >> }

\* C15: every pass of the loop takes as clone candidate the clonable walker (copies >= 1,
\* weight/(copies+1) > pmin, empty merge group) with the greatest per-walker variation, the
\* larger index among equals, and None when no walker is clonable; a walker with a
\* non-empty merge group is never the candidate.
C15_CloneCandidateSelection ==
    [][ InLoop =>
          /\ (Clonable = {}) => (max_idx' = None)
          /\ (Clonable # {}) =>
                /\ max_idx' \in Clonable
                /\ \A j \in Clonable :
                      \/ walker_variations.n[j] < walker_variations.n[max_idx']
                      \/ (walker_variations.n[j] = walker_variations.n[max_idx'] /\ j <= max_idx')
          /\ \A s \in Walkers : merge_groups[s] # << >> => max_idx' # s ]_vars

\* a pass that found no pair leaves the state it started in: its candidate won a tie against
\* a smaller index while a survivor of an earlier merge was left out
C15_Witness ==
    /\ pc = "loop" /\ move = "nopair" /\ max_idx # None
    /\ \E j \in Clonable :
          j < max_idx /\ walker_variations.n[j] = walker_variations.n[max_idx]
    /\ \E s \in Walkers : merge_groups[s] # << >>

FracEq(a, b) == ~ FracLT(a, b) /\ ~ FracLT(b, a)

C17_DecideTerminates ==
    /\ (pc = "loop") ~> (pc \in { "done", "error" })
    /\ [](pc \in { "loop", "done" } => Accepted <= NumWalkers - 1)
    /\ [][ (InLoop /\ move' = "accept") =>
             /\ Squashed \subseteq Squashed'
             /\ Cardinality(Squashed') = Cardinality(Squashed) + 1
             /\ Accepted' = Accepted + 1 ]_vars
    /\ [][ (pc = "loop" /\ pc' # "idle") => Squashed \subseteq Squashed' ]_vars
    /\ [][ (pc = "loop" /\ move \in { "reject", "nopair" }) =>
             (pc' = "done" /\ UNCHANGED locals) ]_vars

\* decide returned after two accepted moves, when the third pass found no merge pair
C17_Witness ==
    /\ Returned
    /\ move = "nopair"
    /\ Accepted >= 2
    /\ Cardinality(Squashed) = Accepted

\* C18: no step of the program changes the lists decide was called with or the distance
\* matrix; an accepted move changes the working copy counts, and only them and the other
\* locals of the call.
C18_ArgumentsUntouched ==
    [][ /\ UNCHANGED << walker_weights, num_walker_copies, distance_matrix >>
        /\ (InLoop /\ move' = "accept") => new_num_walker_copies' # new_num_walker_copies ]_vars

\* decide returned after a merge: its working lists differ from the caller's
C18_Witness ==
    /\ Returned
    /\ Accepted >= 1
    /\ new_walker_weights # walker_weights
    /\ new_num_walker_copies.n # num_walker_copies

Cloned == { i \in Walkers : walker_clone_nums[i] > 0 }
Survivors == { i \in Walkers : merge_groups[i] # << >> }

\* C19: at the start of every pass and when decide returns, a walker with a clone count
\* above 0 has an empty merge group, is in no merge group and has 1 + its clone count
\* copies; a walker that survived a merge or was squashed has clone count 0; and the clone
\* candidate of a pass is never one of the pair the pass merges.
C19_RolesExclusive ==
    /\ (AtIteration \/ Returned) =>
          /\ \A i \in Cloned :
                /\ merge_groups[i] = << >>
                /\ i \notin GroupMembers
                /\ new_num_walker_copies.n[i] = 1 + walker_clone_nums[i]
                /\ new_num_walker_copies.d = 1
          /\ \A i \in Survivors \cup Squashed : walker_clone_nums[i] = 0
    /\ (max_idx # None /\ merge_pair # << >>) =>
          (max_idx # merge_pair[1] /\ max_idx # merge_pair[2])

\* decide returned with a walker cloned twice, a survivor and a squashed walker
C19_Witness ==
    /\ Returned
    /\ \E i \in Cloned : walker_clone_nums[i] >= 2
    /\ Survivors # {}
    /\ Squashed # {}

====
